---- MODULE Spec2Model ----
(***************************************************************************)
(* Model of the libra load-cell scale core: src/src/lib.rs (median) and    *)
(* src/src/scale.rs (DisconnectedScale, ConnectedScale).                   *)
(*                                                                         *)
(* f64 values are modelled by integers.  Rust slices and arrays are        *)
(* 0-indexed; the model keeps them as TLA+ sequences, so the element the   *)
(* code calls v[i] is v[i + 1] here.                                       *)
(***************************************************************************)
EXTENDS Integers, Sequences, FiniteSets, TLC

\* scale.rs:8
NUMBER_OF_INPUTS == 4

\* longest slice handed to median() on its own
MaxLen == 4
\* largest `samples` argument of get_median_weight / get_raw_medians
MaxSamples == 3
\* the clock stops advancing here
MaxTime == 6
\* largest `interval` argument of get_median_weight (clock units)
MaxInterval == 1

Channels == 0 .. (NUMBER_OF_INPUTS - 1)

\* values of Grams handed to median() on its own
GramValues == 1 .. 4
\* raw voltage ratios a channel can report
Ratios == {1, 2}
\* phidget::ReturnCode values a driver call can fail with
ReturnCodes == {"EPHIDGET_TIMEOUT", "EPHIDGET_NOTATTACHED"}
\* device serial numbers; set_serial_number rejects those of BadIds
Ids == {7, 8}
BadIds == {8}
\* calibrations a caller supplies
Offsets == {0, 3}
CoefficientVectors == {<<1, 1, 1, 1>>, <<1, 2, 3, 4>>, <<2, -1, 0, 1>>}
\* data intervals a caller programs (ms)
DataIntervals == {32, 128}
\* the sampling interval of the hardware that it reports as its minimum
MinDataInterval == 8
\* data_interval of a channel that was never programmed
NotProgrammed == 0
\* serial number and channel of a handle that was bound to none
PHIDGET_SERIALNUMBER_ANY == -1
PHIDGET_CHANNEL_ANY == -1

VARIABLES
    st,            \* "None" | "Disconnected" | "Connected": which scale value exists
    phidget_id,    \* DisconnectedScale.phidget_id / ConnectedScale.phidget_id
    offset,        \* ConnectedScale.offset
    coefficients,  \* ConnectedScale.coefficients
    vins,          \* ConnectedScale.vins: the open channel handles
    hw,            \* what voltage_ratio() of each channel answers right now
    now,           \* time::Instant::now()
    pc,            \* position of the call in progress
    samples,       \* argument of the call in progress
    interval,      \* argument of the call in progress
    weights,       \* local Vec of get_median_weight; the slice of median()
    init_time,     \* local of get_median_weight
    medians,       \* local of get_raw_medians
    unsorted,      \* the slice as it was handed to median(), before the sort
    result,        \* what the last call returned
    log            \* the driver calls the last call made, in order

vars == <<st, phidget_id, offset, coefficients, vins, hw, now, pc, samples,
          interval, weights, init_time, medians, unsorted, result, log>>

scaleVars == <<st, phidget_id, offset, coefficients, vins>>
callVars == <<pc, samples, interval, weights, init_time, medians, unsorted>>

----------------------------------------------------------------------------
(* Results and errors *)

NoError == [kind |-> "None", return_code |-> "EPHIDGET_OK", load_cell |-> -1]

\* ScaleError::InvalidPhidgetId
InvalidPhidgetId ==
    [kind |-> "InvalidPhidgetId", return_code |-> "EPHIDGET_OK", load_cell |-> -1]

\* ScaleError::phidget_error(return_code, load_cell)
phidget_error(return_code, load_cell) ==
    [kind |-> "PhidgetError", return_code |-> return_code, load_cell |-> load_cell]

NoResult == [op |-> "none", status |-> "None", val |-> <<>>, err |-> NoError]
Ok(op, val) == [op |-> op, status |-> "Ok", val |-> val, err |-> NoError]
Err(op, e) == [op |-> op, status |-> "Err", val |-> <<>>, err |-> e]
\* the call has not returned yet
Running(op) == [op |-> op, status |-> "Running", val |-> <<>>, err |-> NoError]
\* the thread panicked: no value and no error reaches the caller
Panic(op) == [op |-> op, status |-> "Panic", val |-> <<>>, err |-> NoError]

\* answers of the channel driver
Reading(v) == [ok |-> TRUE, val |-> v, code |-> "EPHIDGET_OK"]
Fault(c) == [ok |-> FALSE, val |-> 0, code |-> c]
Responses == {Reading(v) : v \in Ratios} \cup {Fault(c) : c \in ReturnCodes}
Outcomes == {Reading(0)} \cup {Fault(c) : c \in ReturnCodes}
SerialResponses == {Reading(v) : v \in Ids} \cup {Fault(c) : c \in ReturnCodes}

\* one driver call and its return code, as recorded in log
Call(fn, ch, code) == [fn |-> fn, ch |-> ch, code |-> code]
Done(fn, ch) == Call(fn, ch, "EPHIDGET_OK")
\* set_serial_number's code on a rejected identifier (connect discards it)
BindRefused == "EPHIDGET_INVALIDARG"

----------------------------------------------------------------------------
(* Pure functions *)

\* s[1..n] with x inserted before the first element greater than x
RECURSIVE Insert(_, _)
Insert(s, x) ==
    IF s = <<>> THEN <<x>>
    ELSE IF x < Head(s) THEN <<x>> \o s
    ELSE <<Head(s)>> \o Insert(Tail(s), x)

\* weights.sort_by(|a, b| a.partial_cmp(b).unwrap())
RECURSIVE SortAsc(_)
SortAsc(s) ==
    IF s = <<>> THEN <<>>
    ELSE Insert(SortAsc(SubSeq(s, 1, Len(s) - 1)), s[Len(s)])

\* a mis-indexed median: the element below the middle
MedianLowerIndex(ws) ==
    LET middle == (Len(ws) - 1) \div 2
    IN  SortAsc(ws)[middle + 1]

\* lib.rs median(): the value at weights[weights.len() / 2] after the sort.
\* Only applied to a non-empty slice; the empty one panics (see MedianCall).
median(ws) ==
    LET middle == Len(ws) \div 2
    IN  SortAsc(ws)[middle + 1]

RECURSIVE dot_product(_, _)
dot_product(a, b) ==
    IF a = <<>> \/ b = <<>> THEN 0
    ELSE Head(a) * Head(b) + dot_product(Tail(a), Tail(b))

----------------------------------------------------------------------------
(* median() on its own *)

RECURSIVE SeqsUpTo(_, _)
SeqsUpTo(S, n) ==
    IF n = 0 THEN {<<>>}
    ELSE LET shorter == SeqsUpTo(S, n - 1)
         IN  shorter \cup {Append(s, x) : s \in {t \in shorter : Len(t) = n - 1}, x \in S}

Idle ==
    /\ st = "None"
    /\ phidget_id = PHIDGET_SERIALNUMBER_ANY
    /\ offset = 0
    /\ coefficients = <<>>
    /\ vins = <<>>
    /\ hw = [i \in Channels |-> Reading(1)]
    /\ now = 0
    /\ samples = 0
    /\ interval = 0
    /\ init_time = 0
    /\ medians = <<>>
    /\ unsorted = <<>>
    /\ result = NoResult
    /\ log = <<>>

InitMedian ==
    /\ Idle
    /\ pc = "median"
    /\ weights \in SeqsUpTo(GramValues, MaxLen)

\* median(&mut weights): sorts the caller's slice in place and returns the
\* middle element; weights[0] of an empty slice is out of bounds
MedianCall ==
    /\ pc = "median"
    /\ pc' = "idle"
    /\ unsorted' = weights
    /\ weights' = SortAsc(weights)
    /\ result' = IF weights = <<>> THEN Panic("median")
                 ELSE Ok("median", <<median(weights)>>)
    /\ UNCHANGED <<scaleVars, hw, now, samples, interval, init_time, medians, log>>

NextMedian == MedianCall

SpecMedian == InitMedian /\ [][NextMedian]_vars

----------------------------------------------------------------------------
(* The channel handles and the driver calls on them *)

\* VoltageRatioInput::new(): bound to no device and no channel, not open
NewVin ==
    [serial |-> PHIDGET_SERIALNUMBER_ANY, channel |-> PHIDGET_CHANNEL_ANY,
     open |-> FALSE, data_interval |-> NotProgrammed]

ConnectFailed(e, lg) == [ok |-> FALSE, vins |-> <<>>, err |-> e, log |-> lg]

\* a collect() that drops the channel that failed to open and goes on
RECURSIVE ConnectVinsSkipFailed(_, _, _, _, _)
ConnectVinsSkipFailed(id, open, i, acc, lg) ==
    IF i = NUMBER_OF_INPUTS THEN [ok |-> TRUE, vins |-> acc, err |-> NoError, log |-> lg]
    ELSE LET lg2 == lg \o <<Done("set_serial_number", i), Done("set_channel", i),
                            Call("open_wait", i, open[i].code)>>
             vin == [NewVin EXCEPT !.serial = id, !.channel = i, !.open = TRUE]
         IN  ConnectVinsSkipFailed(id, open, i + 1,
                                   IF open[i].ok THEN Append(acc, vin) ELSE acc, lg2)

\* a connect() that also programs each channel to the hardware's minimum
\* data interval
RECURSIVE ConnectVinsMinInterval(_, _, _, _, _)
ConnectVinsMinInterval(id, open, i, acc, lg) ==
    IF i = NUMBER_OF_INPUTS THEN [ok |-> TRUE, vins |-> acc, err |-> NoError, log |-> lg]
    ELSE LET bound == id \notin BadIds
             lg1 == Append(lg, Call("set_serial_number", i,
                                    IF bound THEN "EPHIDGET_OK" ELSE BindRefused))
             lg2 == lg1 \o <<Done("set_channel", i), Call("open_wait", i, open[i].code)>>
             lg3 == lg2 \o <<Done("min_data_interval", i), Done("set_data_interval", i)>>
             vin == [NewVin EXCEPT !.serial = id, !.channel = i, !.open = TRUE,
                                   !.data_interval = MinDataInterval]
         IN  IF ~bound THEN ConnectFailed(InvalidPhidgetId, lg1)
             ELSE IF ~open[i].ok
                  THEN ConnectFailed(phidget_error(open[i].code, i), lg2)
                  ELSE ConnectVinsMinInterval(id, open, i + 1, Append(acc, vin), lg3)

\* a connect() that opens the channel before it binds the identifier
RECURSIVE ConnectVinsOpenFirst(_, _, _, _, _)
ConnectVinsOpenFirst(id, open, i, acc, lg) ==
    IF i = NUMBER_OF_INPUTS THEN [ok |-> TRUE, vins |-> acc, err |-> NoError, log |-> lg]
    ELSE LET bound == id \notin BadIds
             lg1 == lg \o <<Done("set_channel", i), Call("open_wait", i, open[i].code)>>
             lg2 == Append(lg1, Call("set_serial_number", i,
                                     IF bound THEN "EPHIDGET_OK" ELSE BindRefused))
             vin == [NewVin EXCEPT !.serial = id, !.channel = i, !.open = TRUE]
         IN  IF ~open[i].ok
             THEN ConnectFailed(phidget_error(open[i].code, i), lg1)
             ELSE IF ~bound THEN ConnectFailed(InvalidPhidgetId, lg2)
                  ELSE ConnectVinsOpenFirst(id, open, i + 1, Append(acc, vin), lg2)

\* connect(), scale.rs:73-83: (0..NUMBER_OF_INPUTS).map(|i| ...).collect() into
\* Result<Vec<_>, _>.  The map is lazy and collect() stops at the first Err, so
\* the closure never runs for the channels after a failure.  The handles
\* collected so far are dropped with the partial Vec.
\* set_channel(i).unwrap() is taken to succeed for i < NUMBER_OF_INPUTS
\* (scale.rs:126), and set_serial_number to depend on the identifier alone.
RECURSIVE ConnectVins(_, _, _, _, _)
ConnectVins(id, open, i, acc, lg) ==
    IF i = NUMBER_OF_INPUTS THEN [ok |-> TRUE, vins |-> acc, err |-> NoError, log |-> lg]
    ELSE LET bound == id \notin BadIds
             lg1 == Append(lg, Call("set_serial_number", i,
                                    IF bound THEN "EPHIDGET_OK" ELSE BindRefused))
             lg2 == lg1 \o <<Done("set_channel", i), Call("open_wait", i, open[i].code)>>
             vin == [NewVin EXCEPT !.serial = id, !.channel = i, !.open = TRUE]
         IN  IF ~bound THEN ConnectFailed(InvalidPhidgetId, lg1)
             ELSE IF ~open[i].ok
                  THEN ConnectFailed(phidget_error(open[i].code, i), lg2)
                  ELSE ConnectVins(id, open, i + 1, Append(acc, vin), lg2)

\* without_id(), scale.rs:123-131: the same without set_serial_number
RECURSIVE WithoutIdVins(_, _, _, _)
WithoutIdVins(open, i, acc, lg) ==
    IF i = NUMBER_OF_INPUTS THEN [ok |-> TRUE, vins |-> acc, err |-> NoError, log |-> lg]
    ELSE LET lg2 == lg \o <<Done("set_channel", i), Call("open_wait", i, open[i].code)>>
             vin == [NewVin EXCEPT !.channel = i, !.open = TRUE]
         IN  IF ~open[i].ok
             THEN ConnectFailed(phidget_error(open[i].code, i), lg2)
             ELSE WithoutIdVins(open, i + 1, Append(acc, vin), lg2)

\* a set_data_intervals that goes on to the remaining channels after a failure
\* and reports the first one
RECURSIVE SetIntervalsKeepGoing(_, _, _, _, _)
SetIntervalsKeepGoing(vs, iv, cfg, i, lg) ==
    IF i = Len(vs) THEN [ok |-> TRUE, vins |-> vs, err |-> NoError, log |-> lg]
    ELSE LET lg1 == Append(lg, Call("set_data_interval", vs[i + 1].channel, cfg[i].code))
             rest == SetIntervalsKeepGoing(
                         IF cfg[i].ok THEN [vs EXCEPT ![i + 1].data_interval = iv] ELSE vs,
                         iv, cfg, i + 1, IF cfg[i].ok THEN lg1 ELSE lg)
         IN  IF cfg[i].ok THEN rest
             ELSE [ok |-> FALSE, vins |-> rest.vins, err |-> phidget_error(cfg[i].code, i),
                   log |-> lg1]

\* set_data_intervals(), scale.rs:147-149: try_for_each over the handles in
\* index order, stopping at the first Err; i is the position in self.vins
RECURSIVE SetIntervals(_, _, _, _, _)
SetIntervals(vs, iv, cfg, i, lg) ==
    IF i = Len(vs) THEN [ok |-> TRUE, vins |-> vs, err |-> NoError, log |-> lg]
    ELSE LET lg1 == Append(lg, Call("set_data_interval", vs[i + 1].channel, cfg[i].code))
         IN  IF ~cfg[i].ok
             THEN [ok |-> FALSE, vins |-> vs, err |-> phidget_error(cfg[i].code, i),
                   log |-> lg1]
             ELSE SetIntervals([vs EXCEPT ![i + 1].data_interval = iv], iv, cfg, i + 1, lg1)

\* a collect() that keeps reading after a fault and reports the last one
RECURSIVE RawReadingsLastFault(_, _, _, _, _, _)
RawReadingsLastFault(vs, h, i, acc, e, lg) ==
    IF i = Len(vs)
    THEN [ok |-> e = NoError, val |-> IF e = NoError THEN acc ELSE <<>>, err |-> e, log |-> lg]
    ELSE LET r == h[vs[i + 1].channel]
             lg1 == Append(lg, Call("voltage_ratio", vs[i + 1].channel, r.code))
         IN  RawReadingsLastFault(vs, h, i + 1, Append(acc, r.val),
                                  IF r.ok THEN e ELSE phidget_error(r.code, i), lg1)

\* a get_raw_readings that reads every channel and reports the last fault
ReadAllThenReport(vs, h) == RawReadingsLastFault(vs, h, 0, <<>>, NoError, <<>>)

\* get_raw_readings(), scale.rs:171-178: self.vins.iter().enumerate().map(..)
\* .collect() into Result<Vec<f64>, _>: stops at the first Err
RECURSIVE RawReadings(_, _, _, _, _)
RawReadings(vs, h, i, acc, lg) ==
    IF i = Len(vs) THEN [ok |-> TRUE, val |-> acc, err |-> NoError, log |-> lg]
    ELSE LET r == h[vs[i + 1].channel]
             lg1 == Append(lg, Call("voltage_ratio", vs[i + 1].channel, r.code))
         IN  IF ~r.ok
             THEN [ok |-> FALSE, val |-> <<>>, err |-> phidget_error(r.code, i), log |-> lg1]
             ELSE RawReadings(vs, h, i + 1, Append(acc, r.val), lg1)

get_raw_readings(vs, h) == RawReadings(vs, h, 0, <<>>, <<>>)

\* a get_weight that forgets the offset
WeightNoOffset(vs, coeffs, off, h) ==
    LET readings == get_raw_readings(vs, h)
    IN  [ok |-> readings.ok,
         val |-> IF readings.ok THEN <<dot_product(readings.val, coeffs)>> ELSE <<>>,
         err |-> readings.err, log |-> readings.log]

\* a get_weight that forwards the bare return code, without the channel
WeightUnattributed(vs, coeffs, off, h) ==
    LET readings == get_raw_readings(vs, h)
    IN  [ok |-> readings.ok,
         val |-> IF readings.ok THEN <<dot_product(readings.val, coeffs) - off>> ELSE <<>>,
         err |-> IF readings.ok THEN NoError
                 ELSE [kind |-> "ReturnCode", return_code |-> readings.err.return_code,
                       load_cell |-> -1],
         log |-> readings.log]

\* get_weight(), scale.rs:180-189
get_weight(vs, coeffs, off, h) ==
    LET readings == get_raw_readings(vs, h)
    IN  [ok |-> readings.ok,
         val |-> IF readings.ok THEN <<dot_product(readings.val, coeffs) - off>> ELSE <<>>,
         err |-> readings.err, log |-> readings.log]

Return(op, r) == IF r.ok THEN Ok(op, r.val) ELSE Err(op, r.err)

----------------------------------------------------------------------------
(* The scale: DisconnectedScale -> connect() -> ConnectedScale *)

NoScale ==
    /\ st' = "None"
    /\ phidget_id' = PHIDGET_SERIALNUMBER_ANY
    /\ offset' = 0
    /\ coefficients' = <<>>
    /\ vins' = <<>>

Init ==
    /\ Idle
    /\ pc = "idle"
    /\ weights = <<>>

\* DisconnectedScale::new(phidget_id)
New(id) ==
    /\ pc = "idle"
    /\ st = "None"
    /\ st' = "Disconnected"
    /\ phidget_id' = id
    /\ result' = Ok("new", <<>>)
    /\ log' = <<>>
    /\ UNCHANGED <<offset, coefficients, vins, hw, now, callVars>>

\* DisconnectedScale::connect(self, offset, coefficients, timeout); open[i] is
\* what open_wait answers on channel i.  self is consumed either way.
Connect(o, c, open) ==
    /\ pc = "idle"
    /\ st = "Disconnected"
    /\ LET r == ConnectVins(phidget_id, open, 0, <<>>, <<>>)
       IN  /\ log' = r.log
           /\ IF ~r.ok
              THEN /\ NoScale
                   /\ result' = Err("connect", r.err)
              ELSE IF Len(r.vins) # NUMBER_OF_INPUTS
              THEN /\ NoScale
                   /\ result' = Panic("connect")
              ELSE /\ st' = "Connected"
                   /\ phidget_id' = phidget_id
                   /\ offset' = o
                   /\ coefficients' = c
                   /\ vins' = r.vins
                   /\ result' = Ok("connect", <<>>)
    /\ UNCHANGED <<hw, now, callVars>>

\* Phidget::serial_number(&mut vins[ch]) as recorded in log, with its answer
SerialRead(ch, sn) == [fn |-> "serial_number", ch |-> ch, code |-> sn.code, val |-> sn.val]

\* a without_id that does not adopt the identifier it read back
WithoutIdKeepsAny(open, sn) ==
    /\ pc = "idle"
    /\ st = "None"
    /\ LET r == WithoutIdVins(open, 0, <<>>, <<>>)
           lg == Append(r.log, SerialRead(0, sn))
       IN  IF ~r.ok
           THEN /\ NoScale
                /\ log' = r.log
                /\ result' = Err("without_id", r.err)
           ELSE IF ~sn.ok
           THEN /\ NoScale
                /\ log' = lg
                /\ result' = Err("without_id", phidget_error(sn.code, 0))
           ELSE /\ st' = "Connected"
                /\ phidget_id' = PHIDGET_SERIALNUMBER_ANY
                /\ offset' = 0
                /\ coefficients' = [i \in 1 .. NUMBER_OF_INPUTS |-> 0]
                /\ vins' = r.vins
                /\ log' = lg
                /\ result' = Ok("without_id", <<>>)
    /\ UNCHANGED <<hw, now, callVars>>

\* ConnectedScale::without_id(timeout); sn is what serial_number answers
WithoutId(open, sn) ==
    /\ pc = "idle"
    /\ st = "None"
    /\ LET r == WithoutIdVins(open, 0, <<>>, <<>>)
           lg == Append(r.log, SerialRead(0, sn))
       IN  IF ~r.ok
           THEN /\ NoScale
                /\ log' = r.log
                /\ result' = Err("without_id", r.err)
           ELSE IF Len(r.vins) # NUMBER_OF_INPUTS
           THEN /\ NoScale
                /\ log' = r.log
                /\ result' = Panic("without_id")
           ELSE IF ~sn.ok
           THEN /\ NoScale
                /\ log' = lg
                /\ result' = Err("without_id", phidget_error(sn.code, 0))
           ELSE /\ st' = "Connected"
                /\ phidget_id' = sn.val
                /\ offset' = 0
                /\ coefficients' = [i \in 1 .. NUMBER_OF_INPUTS |-> 0]
                /\ vins' = r.vins
                /\ log' = lg
                /\ result' = Ok("without_id", <<>>)
    /\ UNCHANGED <<hw, now, callVars>>

\* ConnectedScale::set_data_intervals(&mut self, interval)
SetDataIntervals(iv, cfg) ==
    /\ pc = "idle"
    /\ st = "Connected"
    /\ LET r == SetIntervals(vins, iv, cfg, 0, <<>>)
       IN  /\ vins' = r.vins
           /\ log' = r.log
           /\ result' = IF r.ok THEN Ok("set_data_intervals", <<>>)
                        ELSE Err("set_data_intervals", r.err)
    /\ UNCHANGED <<st, phidget_id, offset, coefficients, hw, now, callVars>>

\* an update that rebuilds the scale without carrying the identifier over
UpdateCoefficientsLosesId(c) ==
    /\ pc = "idle"
    /\ st = "Connected"
    /\ coefficients' = c
    /\ phidget_id' = PHIDGET_SERIALNUMBER_ANY
    /\ result' = Ok("update_coefficients", <<>>)
    /\ log' = <<>>
    /\ UNCHANGED <<st, offset, vins, hw, now, callVars>>

\* ConnectedScale::update_coefficients(self, coefficients)
UpdateCoefficients(c) ==
    /\ pc = "idle"
    /\ st = "Connected"
    /\ coefficients' = c
    /\ result' = Ok("update_coefficients", <<>>)
    /\ log' = <<>>
    /\ UNCHANGED <<st, phidget_id, offset, vins, hw, now, callVars>>

\* an update that rebuilds the scale by reopening its channels
UpdateOffsetReopen(o) ==
    /\ pc = "idle"
    /\ st = "Connected"
    /\ offset' = o
    /\ vins' = [i \in 1 .. Len(vins) |-> [vins[i] EXCEPT !.data_interval = NotProgrammed]]
    /\ result' = Ok("update_offset", <<>>)
    /\ log' = [i \in 1 .. Len(vins) |-> Done("open_wait", vins[i].channel)]
    /\ UNCHANGED <<st, phidget_id, coefficients, hw, now, callVars>>

\* ConnectedScale::update_offset(self, offset)
UpdateOffset(o) ==
    /\ pc = "idle"
    /\ st = "Connected"
    /\ offset' = o
    /\ result' = Ok("update_offset", <<>>)
    /\ log' = <<>>
    /\ UNCHANGED <<st, phidget_id, coefficients, vins, hw, now, callVars>>

\* ConnectedScale::get_phidget_id(&self)
GetPhidgetId ==
    /\ pc = "idle"
    /\ st = "Connected"
    /\ result' = Ok("get_phidget_id", <<phidget_id>>)
    /\ log' = <<>>
    /\ UNCHANGED <<scaleVars, hw, now, callVars>>

\* the scale value goes out of scope: its channels are released
Drop ==
    /\ pc = "idle"
    /\ st # "None"
    /\ NoScale
    /\ result' = Ok("drop", <<>>)
    /\ log' = <<>>
    /\ UNCHANGED <<hw, now, callVars>>

\* ConnectedScale::get_raw_readings(&self)
GetRawReadings ==
    /\ pc = "idle"
    /\ st = "Connected"
    /\ LET r == get_raw_readings(vins, hw)
       IN  /\ result' = Return("get_raw_readings", r)
           /\ log' = r.log
    /\ UNCHANGED <<scaleVars, hw, now, callVars>>

\* a get_weight that tares the scale with what it read
GetWeightTare ==
    /\ pc = "idle"
    /\ st = "Connected"
    /\ LET r == get_weight(vins, coefficients, offset, hw)
       IN  /\ result' = Return("get_weight", r)
           /\ log' = r.log
           /\ offset' = IF r.ok THEN offset + r.val[1] ELSE offset
    /\ UNCHANGED <<st, phidget_id, coefficients, vins, hw, now, callVars>>

\* ConnectedScale::get_weight(&self)
GetWeight ==
    /\ pc = "idle"
    /\ st = "Connected"
    /\ LET r == get_weight(vins, coefficients, offset, hw)
       IN  /\ result' = Return("get_weight", r)
           /\ log' = r.log
    /\ UNCHANGED <<scaleVars, hw, now, callVars>>

\* the load on a cell, or its health, changes
HwChange(i, v) ==
    /\ hw[i] # v
    /\ hw' = [hw EXCEPT ![i] = v]
    /\ UNCHANGED <<scaleVars, now, callVars, result, log>>

\* time passes
Tick ==
    /\ now < MaxTime
    /\ now' = now + 1
    /\ UNCHANGED <<scaleVars, hw, callVars, result, log>>

----------------------------------------------------------------------------
(* get_median_weight(): the paced sampling loop, scale.rs:191-204 *)

\* a pacing test that lets every iteration through
ElapsedAlways(current_time, init, iv) == TRUE

\* a pacing test with its operands the wrong way round
ElapsedReversed(current_time, init, iv) ==
    LET time_delta == current_time - init
    IN  iv > time_delta

\* scale.rs:196-197: time_delta > interval
Elapsed(current_time, init, iv) ==
    LET time_delta == current_time - init
    IN  time_delta > iv

\* scale.rs:191-193
GetMedianWeightCall(n, iv) ==
    /\ pc = "idle"
    /\ st = "Connected"
    /\ pc' = "gmw_loop"
    /\ samples' = n
    /\ interval' = iv
    /\ weights' = <<>>
    /\ init_time' = now
    /\ unsorted' = <<>>
    /\ result' = Running("get_median_weight")
    /\ log' = <<>>
    /\ UNCHANGED <<scaleVars, hw, now, medians>>

\* scale.rs:194-197: one iteration that finds the interval elapsed.  An
\* iteration that finds it not elapsed changes nothing (a stuttering step).
GmwCheck ==
    /\ pc = "gmw_loop"
    /\ Len(weights) < samples
    /\ Elapsed(now, init_time, interval)
    /\ pc' = "gmw_read"
    /\ UNCHANGED <<scaleVars, hw, now, samples, interval, weights, init_time,
                   medians, unsorted, result, log>>

\* what the loop does with the answer of get_weight: a loop that skips a
\* failed observation and carries on
AfterWeightSkipFailed(r) ==
    /\ pc' = "gmw_loop"
    /\ weights' = IF r.ok THEN Append(weights, r.val[1]) ELSE weights
    /\ init_time' = now
    /\ result' = result

\* scale.rs:198-200: `?` returns the error of get_weight at once; otherwise
\* the weight is pushed and init_time restarts from the clock
AfterWeight(r) ==
    IF ~r.ok
    THEN /\ pc' = "idle"
         /\ result' = Err("get_median_weight", r.err)
         /\ UNCHANGED <<weights, init_time>>
    ELSE /\ pc' = "gmw_loop"
         /\ weights' = Append(weights, r.val[1])
         /\ init_time' = now
         /\ result' = result

GmwRead ==
    /\ pc = "gmw_read"
    /\ LET r == get_weight(vins, coefficients, offset, hw)
       IN  /\ log' = log \o r.log
           /\ AfterWeight(r)
    /\ UNCHANGED <<scaleVars, hw, now, samples, interval, medians, unsorted>>

\* a return that answers an empty collection with a default weight of 0
GmwReturnDefault ==
    /\ pc = "gmw_loop"
    /\ Len(weights) >= samples
    /\ pc' = "idle"
    /\ unsorted' = weights
    /\ weights' = SortAsc(weights)
    /\ result' = IF weights = <<>> THEN Ok("get_median_weight", <<0>>)
                 ELSE Ok("get_median_weight", <<median(weights)>>)
    /\ UNCHANGED <<scaleVars, hw, now, samples, interval, init_time, medians, log>>

\* scale.rs:194 and 203: the loop is over, median(weights.as_mut_slice())
GmwReturn ==
    /\ pc = "gmw_loop"
    /\ Len(weights) >= samples
    /\ pc' = "idle"
    /\ unsorted' = weights
    /\ weights' = SortAsc(weights)
    /\ result' = IF weights = <<>> THEN Panic("get_median_weight")
                 ELSE Ok("get_median_weight", <<median(weights)>>)
    /\ UNCHANGED <<scaleVars, hw, now, samples, interval, init_time, medians, log>>

----------------------------------------------------------------------------
(* get_raw_medians(), scale.rs:210-222 *)

\* Vec<f64>::partial_cmp: lexicographic
RECURSIVE LexLess(_, _)
LexLess(a, b) ==
    IF b = <<>> THEN FALSE
    ELSE IF a = <<>> THEN TRUE
    ELSE IF Head(a) # Head(b) THEN Head(a) < Head(b)
    ELSE LexLess(Tail(a), Tail(b))

RECURSIVE InsertLex(_, _)
InsertLex(s, x) ==
    IF s = <<>> THEN <<x>>
    ELSE IF LexLess(x, Head(s)) THEN <<x>> \o s
    ELSE <<Head(s)>> \o InsertLex(Tail(s), x)

\* scale.rs:219: medians.sort_by(|a, b| a.partial_cmp(b).unwrap()) sorts the
\* array of the four Vecs, not the readings inside each Vec
RECURSIVE SortLex(_)
SortLex(s) ==
    IF s = <<>> THEN <<>>
    ELSE InsertLex(SortLex(SubSeq(s, 1, Len(s) - 1)), s[Len(s)])

\* scale.rs:214-216: one pass over the channels; get_input_reading(i)? leaves
\* at the first fault
RECURSIVE SampleRound(_, _, _, _, _)
SampleRound(vs, h, meds, i, lg) ==
    IF i = NUMBER_OF_INPUTS THEN [ok |-> TRUE, medians |-> meds, err |-> NoError, log |-> lg]
    ELSE LET r == h[vs[i + 1].channel]
             lg1 == Append(lg, Call("voltage_ratio", vs[i + 1].channel, r.code))
         IN  IF ~r.ok
             THEN [ok |-> FALSE, medians |-> meds, err |-> phidget_error(r.code, i),
                   log |-> lg1]
             ELSE SampleRound(vs, h, [meds EXCEPT ![i + 1] = Append(@, r.val)], i + 1, lg1)

\* scale.rs:218-221: element samples / 2 of each Vec of the sorted array
RawMedians(meds, n) ==
    LET sorted == SortLex(meds)
    IN  [vin \in 1 .. NUMBER_OF_INPUTS |-> sorted[vin][n \div 2 + 1]]

\* scale.rs:211-212
GetRawMediansCall(n) ==
    /\ pc = "idle"
    /\ st = "Connected"
    /\ pc' = "grm_loop"
    /\ samples' = n
    /\ medians' = [i \in 1 .. NUMBER_OF_INPUTS |-> <<>>]
    /\ unsorted' = <<>>
    /\ result' = Running("get_raw_medians")
    /\ log' = <<>>
    /\ UNCHANGED <<scaleVars, hw, now, interval, weights, init_time>>

\* scale.rs:213-217: one iteration of `for _ in 0..samples`
GrmSample ==
    /\ pc = "grm_loop"
    /\ Len(medians[1]) < samples
    /\ LET r == SampleRound(vins, hw, medians, 0, <<>>)
       IN  /\ medians' = r.medians
           /\ log' = log \o r.log
           /\ IF r.ok THEN UNCHANGED <<pc, result>>
              ELSE /\ pc' = "idle"
                   /\ result' = Err("get_raw_medians", r.err)
    /\ UNCHANGED <<scaleVars, hw, now, samples, interval, weights, init_time, unsorted>>

\* scale.rs:218-221; medians[vin][0] of an empty Vec is out of bounds
GrmReturn ==
    /\ pc = "grm_loop"
    /\ Len(medians[1]) >= samples
    /\ pc' = "idle"
    /\ unsorted' = medians
    /\ medians' = SortLex(medians)
    /\ result' = IF samples \div 2 >= Len(medians[1]) THEN Panic("get_raw_medians")
                 ELSE Ok("get_raw_medians", RawMedians(medians, samples))
    /\ UNCHANGED <<scaleVars, hw, now, samples, interval, weights, init_time, log>>

----------------------------------------------------------------------------
(* Specifications *)

Lifecycle ==
    \/ \E id \in Ids : New(id)
    \/ \E o \in Offsets, c \in CoefficientVectors, open \in [Channels -> Outcomes] :
          Connect(o, c, open)
    \/ \E open \in [Channels -> Outcomes], sn \in SerialResponses : WithoutId(open, sn)
    \/ \E iv \in DataIntervals, cfg \in [Channels -> Outcomes] : SetDataIntervals(iv, cfg)
    \/ \E c \in CoefficientVectors : UpdateCoefficients(c)
    \/ \E o \in Offsets : UpdateOffset(o)
    \/ GetPhidgetId
    \/ Drop

Reads ==
    \/ GetRawReadings
    \/ GetWeight

Environment ==
    \/ \E i \in Channels, v \in Responses : HwChange(i, v)
    \/ Tick

MedianWeight ==
    \/ \E n \in 0 .. MaxSamples, iv \in 0 .. MaxInterval : GetMedianWeightCall(n, iv)
    \/ GmwCheck
    \/ GmwRead
    \/ GmwReturn

RawMediansOp ==
    \/ \E n \in 0 .. MaxSamples : GetRawMediansCall(n)
    \/ GrmSample
    \/ GrmReturn

Next ==
    \/ Lifecycle
    \/ Reads
    \/ Environment
    \/ MedianWeight
    \/ RawMediansOp

\* the whole program
Spec == Init /\ [][Next]_vars

\* construction, connection and configuration only
SpecConnect == Init /\ [][Lifecycle]_vars

AllOpen == [i \in Channels |-> Reading(0)]

\* the state a successful connect() leaves
InitConnected ==
    /\ st = "Connected"
    /\ phidget_id \in Ids \ BadIds
    /\ offset \in Offsets
    /\ coefficients \in CoefficientVectors
    /\ vins = ConnectVins(phidget_id, AllOpen, 0, <<>>, <<>>).vins
    /\ hw = [i \in Channels |-> Reading(1)]
    /\ now = 0
    /\ pc = "idle"
    /\ samples = 0
    /\ interval = 0
    /\ weights = <<>>
    /\ init_time = 0
    /\ medians = <<>>
    /\ unsorted = <<>>
    /\ result = Ok("connect", <<>>)
    /\ log = ConnectVins(phidget_id, AllOpen, 0, <<>>, <<>>).log

\* single reads of a connected scale whose cells and calibration change
NextReads ==
    \/ Reads
    \/ \E c \in CoefficientVectors : UpdateCoefficients(c)
    \/ \E o \in Offsets : UpdateOffset(o)
    \/ \E i \in Channels, v \in Responses : HwChange(i, v)

SpecReads == InitConnected /\ [][NextReads]_vars

\* a connected scale on cells whose answers do not change
InitSteady ==
    /\ st = "Connected"
    /\ phidget_id \in Ids \ BadIds
    /\ offset \in Offsets
    /\ coefficients \in CoefficientVectors
    /\ vins = ConnectVins(phidget_id, AllOpen, 0, <<>>, <<>>).vins
    /\ hw \in [Channels -> Responses]
    /\ now = 0
    /\ pc = "idle"
    /\ samples = 0
    /\ interval = 0
    /\ weights = <<>>
    /\ init_time = 0
    /\ medians = <<>>
    /\ unsorted = <<>>
    /\ result = Ok("connect", <<>>)
    /\ log = ConnectVins(phidget_id, AllOpen, 0, <<>>, <<>>).log

NextSteady ==
    \/ Reads
    \/ GetPhidgetId

SpecSteady == InitSteady /\ [][NextSteady]_vars

\* the cells that change in SpecIdentity
IdentityChannels == {2}

\* the life of a scale together with single reads of changing cells
NextIdentity ==
    \/ Lifecycle
    \/ Reads
    \/ \E i \in IdentityChannels, v \in Responses : HwChange(i, v)

SpecIdentity == Init /\ [][NextIdentity]_vars

\* the cells whose load or health changes while a sampling loop runs
PacedChannels == {0, 2}
PacedCoefficients == <<1, 2, 3, 4>>

InitPaced ==
    /\ InitConnected
    /\ offset = 0
    /\ coefficients = PacedCoefficients

NextMedianWeight ==
    \/ MedianWeight
    \/ Tick
    \/ \E i \in PacedChannels, v \in Responses : HwChange(i, v)

SpecMedianWeight == InitPaced /\ [][NextMedianWeight]_vars

\* the cell that changes in SpecMedianWeightLive
LiveChannels == {2}

NextMedianWeightLive ==
    \/ MedianWeight
    \/ Tick
    \/ \E i \in LiveChannels, v \in Responses : HwChange(i, v)

\* the same, with a clock that keeps advancing (up to MaxTime) and a thread
\* that keeps executing the loop it is in
SpecMedianWeightLive ==
    /\ InitPaced
    /\ [][NextMedianWeightLive]_vars
    /\ WF_vars(Tick)
    /\ WF_vars(GmwCheck)
    /\ WF_vars(GmwRead)
    /\ WF_vars(GmwReturn)

NextRawMedians ==
    \/ RawMediansOp
    \/ \E i \in PacedChannels, v \in Responses : HwChange(i, v)

SpecRawMedians == InitPaced /\ [][NextRawMedians]_vars

----------------------------------------------------------------------------
(* Properties *)

CountLess(s, m) == Cardinality({j \in DOMAIN s : s[j] < m})
CountAtMost(s, m) == Cardinality({j \in DOMAIN s : s[j] <= m})

\* m is what stands at (0-based) index k once s is put in ascending order
AtSortedIndex(s, k, m) ==
    /\ \E j \in DOMAIN s : s[j] = m
    /\ CountLess(s, m) <= k
    /\ k < CountAtMost(s, m)

MedianReturned == result.op = "median" /\ result.status # "None"

\* C1: for every non-empty slice, median() returns the value at index
\* floor(n / 2) of the slice sorted ascending, for odd and for even n.
C1_MedianAtFloorHalf ==
    (MedianReturned /\ unsorted # <<>>) =>
        /\ result.status = "Ok"
        /\ AtSortedIndex(unsorted, Len(unsorted) \div 2, result.val[1])

C1_Witness ==
    /\ MedianReturned
    /\ unsorted = <<3, 1, 2>>
    /\ result.val = <<2>>

\* C2 as stated: for every even-length slice, median() returns the lower of
\* the two middle elements of the sorted slice.
C2_LowerMedian ==
    (MedianReturned /\ unsorted # <<>> /\ Len(unsorted) % 2 = 0) =>
        AtSortedIndex(unsorted, Len(unsorted) \div 2 - 1, result.val[1])

\* C2, amended: for every even-length slice, median() returns the upper of the
\* two middle elements of the sorted slice (never their average): it is an
\* element of the slice, at least n/2 elements are no greater than it besides
\* itself, and [4,1,3,2] gives 3.
C2_UpperMedian ==
    (MedianReturned /\ unsorted # <<>> /\ Len(unsorted) % 2 = 0) =>
        LET half == Len(unsorted) \div 2
            m == result.val[1]
        IN  /\ AtSortedIndex(unsorted, half, m)
            /\ \A low \in GramValues : AtSortedIndex(unsorted, half - 1, low) => low <= m
            /\ unsorted = <<4, 1, 3, 2>> => m = 3

C2_Witness ==
    /\ MedianReturned
    /\ unsorted = <<4, 1, 3, 2>>
    /\ result.val = <<3>>

\* C3 as stated: get_raw_medians(samples), samples >= 1 and every read
\* succeeding, returns for each channel i the element at index
\* floor(samples / 2) of channel i's own readings sorted ascending.
C3_PerChannelMedian ==
    (result.op = "get_raw_medians" /\ result.status = "Ok" /\ samples >= 1) =>
        \A i \in Channels :
            AtSortedIndex(unsorted[i + 1], samples \div 2, result.val[i + 1])

Faulty(h) == {k \in Channels : ~h[k].ok}
FirstFaulty(h) == CHOOSE k \in Faulty(h) : \A j \in Faulty(h) : k <= j
\* the reads of channels 0 .. k in index order, answered as h answers
ReadsUpTo(h, k) == [j \in 1 .. (k + 1) |-> Call("voltage_ratio", j - 1, h[j - 1].code)]

\* C4: get_raw_readings reads the channels in index order; the first faulting
\* channel k makes it fail with a device fault carrying k, the channels after
\* k are not read and no readings are returned; with no fault it returns four
\* readings, reading i from channel i.
C4_RawReadingsShortCircuit ==
    [][(result'.op = "get_raw_readings" /\ hw' = hw) =>
          IF Faulty(hw) = {}
          THEN /\ result'.status = "Ok"
               /\ Len(result'.val) = NUMBER_OF_INPUTS
               /\ \A i \in Channels : result'.val[i + 1] = hw[i].val
               /\ log' = ReadsUpTo(hw, NUMBER_OF_INPUTS - 1)
          ELSE LET k == FirstFaulty(hw)
               IN  /\ result'.status = "Err"
                   /\ result'.err = phidget_error(hw[k].code, k)
                   /\ result'.val = <<>>
                   /\ log' = ReadsUpTo(hw, k)]_vars

C4_Witness ==
    /\ result.op = "get_raw_readings"
    /\ result.status = "Err"
    /\ result.err.load_cell = 2
    /\ Len(log) = 3
    /\ ~hw[3].ok

\* C5: get_weight, when all four reads succeed, returns exactly the sum over i
\* of reading[i] * coefficient[i], minus offset, with the scale's current
\* coefficients and offset.
C5_WeightIsDotMinusOffset ==
    [][(result'.op = "get_weight" /\ hw' = hw /\ Faulty(hw) = {}) =>
          /\ result'.status = "Ok"
          /\ result'.val = <<hw[0].val * coefficients[1] + hw[1].val * coefficients[2]
                             + hw[2].val * coefficients[3] + hw[3].val * coefficients[4]
                             - offset>>
          /\ UNCHANGED <<coefficients, offset>>]_vars

C5_Witness ==
    /\ result.op = "get_weight"
    /\ result.status = "Ok"
    /\ coefficients = <<1, 2, 3, 4>>
    /\ offset = 3
    /\ hw = [i \in Channels |-> Reading(IF i = 1 THEN 2 ELSE 1)]
    /\ result.val = <<9>>

OpenWaits(lg) == SelectSeq(lg, LAMBDA c : c.fn = "open_wait")
Failed(c) == c.code # "EPHIDGET_OK"

\* C6: connect() is all-or-nothing.  A failed open_wait on channel k is the
\* last driver call of the connect, which returns a device fault tagged k and
\* no scale; the channels are opened in index order, so none after k is opened.
\* A successful connect opened all four.  A Connected Scale always owns
\* exactly four open channels, channel i bound to index i.
C6_ConnectAllOrNothing ==
    /\ st = "Connected" =>
          /\ Len(vins) = NUMBER_OF_INPUTS
          /\ \A i \in Channels : vins[i + 1].open /\ vins[i + 1].channel = i
    /\ st # "Connected" => vins = <<>>
    /\ result.op = "connect" =>
          /\ \A j \in DOMAIN OpenWaits(log) : OpenWaits(log)[j].ch = j - 1
          /\ \A j \in DOMAIN log :
                (log[j].fn = "open_wait" /\ Failed(log[j])) =>
                    /\ j = Len(log)
                    /\ result.status = "Err"
                    /\ result.err = phidget_error(log[j].code, log[j].ch)
                    /\ st = "None"
          /\ result.status = "Ok" <=>
                /\ Len(OpenWaits(log)) = NUMBER_OF_INPUTS
                /\ \A j \in DOMAIN log : ~Failed(log[j])
          /\ result.status = "Ok" => st = "Connected"
          /\ result.status \in {"Ok", "Err"}

\* opening channel 2 failed after channels 0 and 1 were opened
C6_Witness ==
    /\ result.op = "connect"
    /\ result.status = "Err"
    /\ result.err.kind = "PhidgetError"
    /\ result.err.load_cell = 2
    /\ Len(OpenWaits(log)) = 3
    /\ st = "None"

ConnectSucceeded == result.op = "connect" /\ result.status = "Ok"

\* C7 as stated: after a successful connect() every channel has been programmed
\* to the hardware's minimum sampling interval.
C7_ProgrammedToMinimum ==
    ConnectSucceeded =>
        \A i \in Channels : vins[i + 1].data_interval = MinDataInterval

\* C7, amended: after a successful connect() no channel has been programmed with
\* any sampling interval: connect() neither queries the hardware's minimum nor
\* calls set_data_interval.  The channels are programmed only when the caller
\* invokes set_data_intervals(interval), which on success leaves all four at
\* the caller's interval.
C7_ConnectProgramsNothing ==
    /\ ConnectSucceeded =>
          /\ \A i \in Channels : vins[i + 1].data_interval = NotProgrammed
          /\ \A j \in DOMAIN log :
                log[j].fn \in {"set_serial_number", "set_channel", "open_wait"}
    /\ (result.op = "set_data_intervals" /\ result.status = "Ok") =>
          /\ vins[1].data_interval \in DataIntervals
          /\ \A i \in Channels : vins[i + 1].data_interval = vins[1].data_interval

C7_Witness ==
    /\ ConnectSucceeded
    /\ st = "Connected"
    /\ \A i \in Channels : vins[i + 1].data_interval = NotProgrammed

\* C8: connect() with an identifier that cannot be bound returns
\* InvalidPhidgetId, and no open_wait is made on any channel before that error
\* is returned.
C8_InvalidIdBeforeAnyOpen ==
    [][/\ (st = "Disconnected" /\ phidget_id \in BadIds /\ result'.op = "connect") =>
             /\ result'.status = "Err"
             /\ result'.err = InvalidPhidgetId
             /\ st' = "None"
       /\ (result'.op = "connect" /\ result'.err.kind = "InvalidPhidgetId") =>
             /\ OpenWaits(log') = <<>>
             /\ log' = <<Call("set_serial_number", 0, BindRefused)>>]_vars

C8_Witness ==
    /\ result.op = "connect"
    /\ result.err = InvalidPhidgetId
    /\ log = <<Call("set_serial_number", 0, BindRefused)>>

Sampling == result.op = "get_median_weight" /\ result.status = "Running"
\* the step reads the hardware / accepts an observation / starts a call
ReadsNow == Sampling /\ log' # log
AcceptsNow == Sampling /\ Len(weights') = Len(weights) + 1
StartsNow == ~Sampling /\ result'.op = "get_median_weight" /\ result'.status = "Running"
AllCellsRead(lg) == \A j \in DOMAIN lg : lg[j].fn = "voltage_ratio" /\ ~Failed(lg[j])

\* C9: in get_median_weight(samples, min_interval) the hardware is read only
\* when at least min_interval has elapsed since init_time; init_time is the
\* moment the previous observation was accepted (the moment of the call before
\* the first); and on success exactly `samples` observations were taken.
C9_PacedSampling ==
    [][/\ ReadsNow => (now - init_time >= interval /\ now' = now)
       /\ AcceptsNow => (ReadsNow /\ init_time' = now)
       /\ init_time' # init_time => (AcceptsNow \/ StartsNow)
       /\ StartsNow => init_time' = now
       /\ (Sampling /\ result'.status = "Ok") =>
             /\ Len(unsorted') = samples
             /\ Len(log') = NUMBER_OF_INPUTS * samples
             /\ AllCellsRead(log')]_vars

C9_Witness ==
    /\ result.op = "get_median_weight"
    /\ result.status = "Ok"
    /\ samples = 3
    /\ interval = 1
    /\ Len(log) = 3 * NUMBER_OF_INPUTS

\* C10: when a get_weight() made during get_median_weight fails, the call
\* fails with that error at once; nothing is read after it, and a median is
\* only ever returned over `samples` readings taken without a fault.
C10_FirstFailureAborts ==
    [][/\ (ReadsNow /\ Faulty(hw) # {}) =>
             /\ result'.op = "get_median_weight"
             /\ result'.status = "Err"
             /\ result'.err = phidget_error(hw[FirstFaulty(hw)].code, FirstFaulty(hw))
             /\ result'.err = get_weight(vins, coefficients, offset, hw).err
             /\ weights' = weights
       /\ (result.op = "get_median_weight" /\ result.status = "Err" /\ log' # log) =>
             result'.status = "Running"
       /\ (result'.op = "get_median_weight" /\ result'.status = "Ok") =>
             /\ Len(unsorted') = samples'
             /\ AllCellsRead(log')]_vars

\* the second observation failed after the first was accepted
C10_Witness ==
    /\ result.op = "get_median_weight"
    /\ result.status = "Err"
    /\ Len(weights) = 1
    /\ samples = 3
    /\ Len(log) > NUMBER_OF_INPUTS

\* C11: get_median_weight with samples = 0 never returns a successful median:
\* the call reads nothing and fails (median() indexes the empty slice and
\* panics).
C11_ZeroSamplesNeverSucceeds ==
    (result.op = "get_median_weight" /\ samples = 0) =>
        /\ result.status \in {"Running", "Panic"}
        /\ log = <<>>
        /\ weights = <<>>

C11_Witness ==
    /\ result.op = "get_median_weight"
    /\ samples = 0
    /\ result.status = "Panic"
    /\ pc = "idle"

\* C12 as stated: every error is returned as a value; no call of a public
\* operation ends in a panic, whatever its input and whatever the channels do.
C12_NoPanic == result.status # "Panic"

\* C13: update_offset and update_coefficients change only the named
\* calibration field: the four channel handles (identity, index, settings),
\* the device identifier and the other calibration field are the same before
\* and after, and the update makes no driver call.
C13_UpdatesTouchOnlyTheirField ==
    [][/\ result'.op \in {"update_offset", "update_coefficients"} =>
             /\ st = "Connected" /\ st' = "Connected"
             /\ vins' = vins
             /\ Len(vins') = NUMBER_OF_INPUTS
             /\ phidget_id' = phidget_id
             /\ log' = <<>>
             /\ result'.status = "Ok"
       /\ result'.op = "update_offset" => coefficients' = coefficients
       /\ result'.op = "update_coefficients" => offset' = offset]_vars

\* an offset update on a scale whose channels had been programmed
C13_Witness ==
    /\ result.op = "update_offset"
    /\ offset = 3
    /\ coefficients = <<1, 2, 3, 4>>
    /\ vins[1].data_interval = 128
    /\ vins[4].data_interval = 32

\* C14: without_id opens the four channels in index order without binding an
\* identifier, then reads the identifier back from channel 0 and the scale
\* carries it.  A failed open of channel k gives a device fault tagged k, a
\* failed read-back a device fault tagged 0, and in both cases no scale.
C14_WithoutIdAdoptsReadBack ==
    result.op = "without_id" =>
        LET ow == OpenWaits(log)
        IN  /\ result.status \in {"Ok", "Err"}
            /\ \A j \in DOMAIN log : log[j].fn # "set_serial_number"
            /\ \A j \in DOMAIN ow : ow[j].ch = j - 1
            /\ \A j \in DOMAIN log :
                  (log[j].fn = "open_wait" /\ Failed(log[j])) =>
                      /\ j = Len(log)
                      /\ result = Err("without_id", phidget_error(log[j].code, log[j].ch))
            /\ \A j \in DOMAIN log :
                  log[j].fn = "serial_number" =>
                      /\ j = Len(log)
                      /\ log[j].ch = 0
                      /\ Len(ow) = NUMBER_OF_INPUTS
                      /\ \A i \in DOMAIN ow : ~Failed(ow[i])
                      /\ IF Failed(log[j])
                         THEN result = Err("without_id", phidget_error(log[j].code, 0))
                         ELSE /\ result.status = "Ok"
                              /\ st = "Connected"
                              /\ phidget_id = log[j].val
            /\ result.status = "Ok" =>
                  /\ Len(log) = 2 * NUMBER_OF_INPUTS + 1
                  /\ log[Len(log)].fn = "serial_number"
                  /\ Len(vins) = NUMBER_OF_INPUTS
                  /\ \A i \in Channels :
                        /\ vins[i + 1].channel = i
                        /\ vins[i + 1].serial = PHIDGET_SERIALNUMBER_ANY
            /\ result.status = "Err" => (st = "None" /\ vins = <<>>)

\* the scale adopted an identifier that was read back
C14_Witness ==
    /\ result.op = "without_id"
    /\ result.status = "Ok"
    /\ st = "Connected"
    /\ phidget_id = 8
    /\ log[Len(log)] = SerialRead(0, Reading(8))

\* the weight, or the fault, that cells answering h give under calibration c, o
WeightOf(h, c, o) ==
    IF Faulty(h) = {}
    THEN Ok("get_weight", <<h[0].val * c[1] + h[1].val * c[2] + h[2].val * c[3]
                            + h[3].val * c[4] - o>>)
    ELSE Err("get_weight", phidget_error(h[FirstFaulty(h)].code, FirstFaulty(h)))

\* C15: on a scale whose cell readings and calibration do not change, repeated
\* get_weight calls return identical results, and get_weight leaves offset,
\* coefficients, identifier and channel set as they were.
C15_GetWeightRepeatable ==
    [][/\ result'.op = "get_weight" =>
             /\ UNCHANGED <<st, phidget_id, offset, coefficients, vins>>
             /\ result' = WeightOf(hw, coefficients, offset)
       /\ (result.op = "get_weight" /\ result'.op = "get_weight") => result' = result]_vars

C15_Witness ==
    /\ result.op = "get_weight"
    /\ result.status = "Ok"
    /\ coefficients = <<2, -1, 0, 1>>
    /\ offset = 3
    /\ hw[0].val = 2
    /\ result.val = <<1>>

C17_IdentifierImmutable ==
    [][/\ (st = "Disconnected" /\ st' = "Connected") => phidget_id' = phidget_id
       /\ (st = "Connected" /\ st' = "Connected") => phidget_id' = phidget_id
       /\ result'.op = "get_phidget_id" =>
             /\ result' = Ok("get_phidget_id", <<phidget_id>>)
             /\ log' = <<>>
             /\ UNCHANGED <<st, phidget_id, offset, coefficients, vins>>]_vars

\* the identifier is reported after an update, a half-failed configuration
\* and with a faulted cell
C17_Witness ==
    /\ result = Ok("get_phidget_id", <<7>>)
    /\ offset = 3
    /\ coefficients = <<2, -1, 0, 1>>
    /\ vins[1].data_interval = 32
    /\ vins[4].data_interval = NotProgrammed
    /\ ~hw[2].ok

\* C18: get_median_weight(samples, min_interval) with samples >= 1 eventually
\* returns a median or an error, also with min_interval = 0, as long as the
\* clock advances: the only thing the loop ever waits for is the clock, so a
\* call that has not returned is one whose interval has not elapsed on a clock
\* that has stopped at MaxTime.
C18_MedianWeightReturns ==
    (Sampling /\ samples >= 1) ~>
        \/ ~Sampling
        \/ (now = MaxTime /\ now - init_time <= interval)

\* a call with min_interval = 0 that returned its median
C18_Witness ==
    /\ result.op = "get_median_weight"
    /\ result.status = "Ok"
    /\ interval = 0
    /\ samples = 3
    /\ Len(unsorted) = 3

\* C19: set_data_intervals(interval) programs the channels in index order and
\* stops at the first channel k whose configuration fails, returning a device
\* fault tagged k: channels before k carry the new interval, channels after k
\* are as they were, and offset, coefficients and identifier are unchanged
\* whether it fails or not.
C19_SetDataIntervalsStopsAtFirstFailure ==
    [][result'.op = "set_data_intervals" =>
          LET n == Len(log')
              k == n - 1
          IN  /\ n \in 1 .. NUMBER_OF_INPUTS
              /\ \A j \in 1 .. n :
                    /\ log'[j] = Call("set_data_interval", j - 1, log'[j].code)
                    /\ j < n => ~Failed(log'[j])
              /\ UNCHANGED <<st, phidget_id, offset, coefficients>>
              /\ Len(vins') = NUMBER_OF_INPUTS
              /\ \A i \in Channels : vins'[i + 1].channel = i /\ vins'[i + 1].open
              /\ \E iv \in DataIntervals :
                    \A i \in Channels : i < k => vins'[i + 1].data_interval = iv
              /\ IF Failed(log'[n])
                 THEN /\ result' = Err("set_data_intervals", phidget_error(log'[n].code, k))
                      /\ \A i \in Channels : i > k => vins'[i + 1] = vins[i + 1]
                 ELSE /\ n = NUMBER_OF_INPUTS
                      /\ result'.status = "Ok"
                      /\ vins'[n].data_interval \in DataIntervals
                      /\ \A i \in Channels :
                            vins'[i + 1].data_interval = vins'[n].data_interval]_vars

\* channels 0 and 1 took the new interval, channel 2 failed, 3 kept the old one
C19_Witness ==
    /\ result = Err("set_data_intervals", phidget_error("EPHIDGET_TIMEOUT", 2))
    /\ vins[1].data_interval = 128
    /\ vins[2].data_interval = 128
    /\ vins[3].data_interval = 32
    /\ vins[4].data_interval = 32
    /\ Len(log) = 3

====
